---- MODULE Spec2Model ----
(***************************************************************************)
(* Economy and turn-resolution engine of src/src/main.rs: the map of       *)
(* groups, nodes and edges, the resource bunch algebra, the construction   *)
(* catalog, the `turn` system, the playback of the action log and the UI   *)
(* entry points that mutate the map (build, demolish, manual transfer,     *)
(* destination selection).                                                 *)
(*                                                                         *)
(* u32 values are kept modulo 2^32 by their two's complement               *)
(* representative: a value v < 2^31 is the integer v, a value v >= 2^31 is *)
(* the negative integer v - 2^32 (so 4294967295 is -1).  Addition and      *)
(* subtraction of small quantities are then the integer operations, the    *)
(* unsigned order is ULt/ULe below, and `as i32` reads the representative. *)
(***************************************************************************)
EXTENDS Integers, Sequences, FiniteSets, TLC

(* ------------------------------ bounds --------------------------------- *)
\* most turns resolved in a run
MaxResolved == 2
\* most EndTurn events that are unread at one moment
MaxEvents == 2
\* most UI operations (build, demolish, transfer click, destination) in a run
MaxOps == 1
\* the UI operations act on the nodes 0..MaxUiNode
MaxUiNode == 5

(* --------------------------- program constants ------------------------- *)
MAX_STOCKPILE == 100
MAX_TURN_ITERS == 10000
ADD_PASSES == 16
BUILD_ITERS == 16
\* the updates an event written to Events<EndTurn> stays readable for
EVENT_UPDATES == 2

NoNode == 0 - 1
NoGroup == 0 - 1

\* `let x = v;`: the rest F reads the value v by name
Let(v, F(_)) == F(v)

(* ------------------------------ u32 ------------------------------------ *)
ULt(a, b) == IF (a < 0) = (b < 0) THEN a < b ELSE b < 0
\* faulty variant of UMin: the amount is not clamped
UFirst(a, b) == a
ULe(a, b) == a = b \/ ULt(a, b)
UMin(a, b) == IF ULe(a, b) THEN a ELSE b
\* `x as i32` keeps the 32 bits: the representative is already the i32 value
AsI32(x) == x
\* 2^31 - 1
I32Max == (1073741824 - 1) + 1073741824
\* wrapping u32 addition and subtraction on representatives
UAdd(a, b) ==
    IF a > 0 /\ b > 0 /\ a > I32Max - b
    THEN ((a - I32Max) + (b - I32Max)) - 2
    ELSE a + b
USub(a, b) ==
    IF a < 0 /\ b > 0 /\ a + I32Max < b - 1
    THEN ((a + I32Max) + (I32Max - b)) + 2
    ELSE a - b
\* u32 / 2
UHalf(x) == IF x >= 0 THEN x \div 2 ELSE I32Max - (((0 - x) - 1) \div 2)

(* ------------------------------ Map::test ------------------------------ *)
GroupIds == 0..7

Range(a, b) == [i \in 1..(b - a) |-> a + i - 1]

groups ==
    [g \in GroupIds |->
        CASE g = 0 -> Range(0, 5)
          [] g = 1 -> Range(5, 8)
          [] g = 2 -> Range(8, 12)
          [] g = 3 -> Range(12, 16)
          [] g = 4 -> Range(16, 24)
          [] g = 5 -> Range(24, 26)
          [] g = 6 -> Range(26, 29)
          [] g = 7 -> Range(29, 34)]

NodeIds == 0..33

InitEdges ==
    << <<0, 1>>, <<1, 2>>, <<1, 5>>, <<1, 6>>, <<2, 3>>,
       <<3, 4>>, <<4, 5>>, <<5, 6>>, <<6, 7>> >>

SeqToSet(s) == {s[i] : i \in DOMAIN s}

\* Map::star: the neighbours of group_id, in edge order
RECURSIVE star(_, _)
star(es, group_id) ==
    IF es = << >> THEN << >>
    ELSE LET e == Head(es)
             rest == star(Tail(es), group_id)
         IN IF e[1] = group_id THEN <<e[2]>> \o rest
            ELSE IF e[2] = group_id THEN <<e[1]>> \o rest
            ELSE rest

\* Map::group_from_node; NoGroup stands for the panic "no group"
group_from_node(id) ==
    IF \E g \in GroupIds : id \in SeqToSet(groups[g])
    THEN CHOOSE g \in GroupIds : id \in SeqToSet(groups[g])
    ELSE NoGroup

(* --------------------------- occupants --------------------------------- *)
ResourceVariant == {"Power", "RocketFuel", "Food", "Material", "FusionFuel"}
ConstructionVariant ==
    {"SolarField", "AtmosphereHarvester", "ChemicalPlant", "PlanetFarm",
     "AsteroidMine", "Quarry", "PowerPlant"}

\* occupation.get(node) = None
NoOcc == [t |-> "none", var |-> "-", n |-> 0]
\* NodeOccupant::Construction { var, cooldown }
Construction(var, cooldown) == [t |-> "C", var |-> var, n |-> cooldown]
\* NodeOccupant::Stockpile { var, amt }
Stockpile(var, amt) == [t |-> "S", var |-> var, n |-> amt]

IsStock(o) == o.t = "S"
IsConstr(o) == o.t = "C"

(* ------------------------------ Bunch ---------------------------------- *)
\* a Bunch is a function from the kinds it has an entry for to u32 amounts
BunchDefault == [k \in {} |-> 0]
BunchSingle(var, amt) == [k \in {var} |-> amt]

\* Bunch::contains: a kind without entry fails, whatever the amount asked
BunchContains(self, oth) ==
    \A var \in DOMAIN oth :
        /\ var \in DOMAIN self
        /\ ULe(oth[var], self[var])

\* faulty variant of BunchAdd: a kind both have keeps the left amount
BunchAddLeft(self, rhs) ==
    [k \in (DOMAIN self) \cup (DOMAIN rhs) |->
        IF k \in DOMAIN self THEN self[k] ELSE rhs[k]]

\* impl Add for Bunch
BunchAdd(self, rhs) ==
    [k \in (DOMAIN self) \cup (DOMAIN rhs) |->
        IF k \in DOMAIN rhs
        THEN IF k \in DOMAIN self THEN self[k] + rhs[k] ELSE rhs[k]
        ELSE self[k]]

\* impl Sum for Bunch: fold from the default bunch
RECURSIVE BunchSum(_)
BunchSum(s) ==
    IF s = << >> THEN BunchDefault
    ELSE BunchAdd(BunchSum(SubSeq(s, 1, Len(s) - 1)), s[Len(s)])

\* .res.get(var).unwrap_or(&0)
GetOr0(b, var) == IF var \in DOMAIN b THEN b[var] ELSE 0

(* ------------------------ ConstructionVariant -------------------------- *)
get_material_cost(var) ==
    CASE var = "SolarField" -> 5
      [] var = "AtmosphereHarvester" -> 20
      [] var = "ChemicalPlant" -> 3
      [] var = "PlanetFarm" -> 10
      [] var = "AsteroidMine" -> 2
      [] var = "Quarry" -> 5
      [] var = "PowerPlant" -> 5

request_resources(var) ==
    CASE var = "SolarField" -> BunchDefault
      [] var = "AtmosphereHarvester" -> BunchSingle("Power", 50)
      [] var = "ChemicalPlant" -> BunchSingle("Material", 2)
      [] var = "PlanetFarm" -> BunchSingle("Material", 12)
      [] var = "AsteroidMine" -> BunchSingle("RocketFuel", 2)
      [] var = "Quarry" -> BunchSingle("Power", 45)
      [] var = "PowerPlant" -> BunchSingle("RocketFuel", 2)

produce_resources(var) ==
    CASE var = "SolarField" -> BunchSingle("Power", 3)
      [] var = "AtmosphereHarvester" -> BunchSingle("FusionFuel", 10)
      [] var = "ChemicalPlant" -> BunchSingle("RocketFuel", 4)
      [] var = "PlanetFarm" -> BunchSingle("Food", 10)
      [] var = "AsteroidMine" -> BunchSingle("Material", 5)
      [] var = "Quarry" -> BunchSingle("Material", 30)
      [] var = "PowerPlant" -> BunchSingle("Power", 10)

get_cooldown(var) ==
    CASE var = "AtmosphereHarvester" -> 3
      [] var = "PlanetFarm" -> 2
      [] var = "Quarry" -> 3
      [] OTHER -> 1

(* --------------------------- Map queries ------------------------------- *)
\* Map::get_group_bunch
RECURSIVE GroupSingles(_, _)
GroupSingles(occ, ns) ==
    IF ns = << >> THEN << >>
    ELSE LET o == occ[Head(ns)]
         IN (IF IsStock(o) THEN <<BunchSingle(o.var, o.n)>> ELSE << >>)
            \o GroupSingles(occ, Tail(ns))

get_group_bunch(occ, id) == BunchSum(GroupSingles(occ, groups[id]))

\* the positions, in the group's node list, of the stockpiles of kind v
PilePositions(occ, id, v) ==
    {i \in DOMAIN groups[id] :
        IsStock(occ[groups[id][i]]) /\ occ[groups[id][i]].var = v}

\* faulty variant of get_lowest_stockpile: the fullest pile instead
get_highest_stockpile(occ, id, v) ==
    LET ps == PilePositions(occ, id, v)
        amt(i) == occ[groups[id][i]].n
    IN IF ps = {} THEN NoNode
       ELSE groups[id][CHOOSE i \in ps : \A j \in ps : ULe(amt(j), amt(i))]

\* faulty variant of get_lowest_stockpile: the last of equal minima
get_lowest_last(occ, id, v) ==
    LET ps == PilePositions(occ, id, v)
        amt(i) == occ[groups[id][i]].n
    IN IF ps = {} THEN NoNode
       ELSE groups[id][CHOOSE i \in ps :
                \A j \in ps : IF j > i THEN ULt(amt(i), amt(j))
                                       ELSE ULe(amt(i), amt(j))]

\* Map::get_lowest_stockpile: min_by keeps the first of equal minima;
\* NoNode stands for the panic "no stockpile"
get_lowest_stockpile(occ, id, v) ==
    LET ps == PilePositions(occ, id, v)
        amt(i) == occ[groups[id][i]].n
    IN IF ps = {} THEN NoNode
       ELSE groups[id][CHOOSE i \in ps :
                \A j \in ps : IF j < i THEN ULt(amt(i), amt(j))
                                       ELSE ULe(amt(i), amt(j))]

\* faulty variant of HighestPosition: full piles are not filtered out
HighestPositionAny(occ, id, v) ==
    LET ps == PilePositions(occ, id, v)
        amt(i) == occ[groups[id][i]].n
    IN IF ps = {} THEN 0
       ELSE CHOOSE i \in ps :
                \A j \in ps : IF j > i THEN ULt(amt(j), amt(i))
                                       ELSE ULe(amt(j), amt(i))

\* the position of the pile add_resource_in_group tops up: among the piles of
\* kind v below MAX_STOCKPILE, max_by keeps the last of equal maxima; 0 = none
HighestPosition(occ, id, v) ==
    LET ps == {i \in PilePositions(occ, id, v) :
                   ULt(occ[groups[id][i]].n, MAX_STOCKPILE)}
        amt(i) == occ[groups[id][i]].n
    IN IF ps = {} THEN 0
       ELSE CHOOSE i \in ps :
                \A j \in ps : IF j > i THEN ULt(amt(j), amt(i))
                                       ELSE ULe(amt(j), amt(i))

\* faulty variant of EmptyPosition: the first node, whatever it holds
FirstPosition(occ, id) == 1

\* faulty variant of EmptyPosition: the empty tile is never found
NoEmptyPosition(occ, id) == 0

\* the position of the first node of the group without occupant; 0 = none
EmptyPosition(occ, id) ==
    LET ps == {i \in DOMAIN groups[id] : occ[groups[id][i]] = NoOcc}
    IN IF ps = {} THEN 0 ELSE CHOOSE i \in ps : \A j \in ps : i <= j

\* one allocation record (NodeId, u32, i32)
Alloc(node, abs, diff) == [node |-> node, abs |-> abs, diff |-> diff]

\* the body of `for _i in 0..16` of add_resource_in_group, from pass i on
RECURSIVE AddPasses(_, _, _, _, _, _)
AddPasses(occ, id, v, left, actions, i) ==
    IF i >= ADD_PASSES \/ left = 0
    THEN [occ |-> occ, actions |-> actions, passes |-> i]
    ELSE Let(HighestPosition(occ, id, v), LAMBDA h :
         IF h # 0
         THEN LET node == groups[id][h]
                  stock_amt == occ[node].n
              IN Let(UMin(left, MAX_STOCKPILE - stock_amt), LAMBDA clamped :
                 AddPasses(
                     [occ EXCEPT ![node] = Stockpile(v, stock_amt + clamped)],
                     id, v, left - clamped,
                     Append(actions,
                            Alloc(node, clamped + stock_amt, AsI32(clamped))),
                     i + 1))
         ELSE Let(EmptyPosition(occ, id), LAMBDA e :
              IF e # 0
              THEN AddPasses(
                       [occ EXCEPT ![groups[id][e]] = Stockpile(v, left)],
                       id, v, 0,
                       Append(actions, Alloc(groups[id][e], left, AsI32(left))),
                       i + 1)
              ELSE AddPasses(occ, id, v, 0, actions, i + 1)))

\* Map::add_resource_in_group; panic = the assert!(amt <= 100) failed
add_resource_in_group(occ, group_id, v, amt) ==
    IF ~ULe(amt, 100)
    THEN [occ |-> occ, actions |-> << >>, passes |-> 0, panic |-> TRUE]
    ELSE Let(AddPasses(occ, group_id, v, amt, << >>, 0), LAMBDA r :
         [occ |-> r.occ, actions |-> r.actions, passes |-> r.passes,
          panic |-> FALSE])

(* ------------------------------ AutoAction ----------------------------- *)
ConsumeResource(from, to, var, abs, diff) ==
    [t |-> "ConsumeResource", from |-> from, to |-> to, var |-> var,
     abs |-> abs, diff |-> diff]
ProduceResource(from, to, var, abs, diff) ==
    [t |-> "ProduceResource", from |-> from, to |-> to, var |-> var,
     abs |-> abs, diff |-> diff]
\* faulty variant of ShipMove: the entry leads back to where the ship is
ShipStay(from, to) ==
    [t |-> "ShipMove", from |-> from, to |-> from, var |-> "-",
     abs |-> 0, diff |-> 0]

ShipMove(from, to) ==
    [t |-> "ShipMove", from |-> from, to |-> to, var |-> "-",
     abs |-> 0, diff |-> 0]
NoAction == [t |-> "none", from |-> 0, to |-> 0, var |-> "-", abs |-> 0, diff |-> 0]

(* ------------------------- consumption of a request -------------------- *)
\* one step of a consumption loop, kept for the record of the turn
Step(node, var, before, clamped) ==
    [node |-> node, var |-> var, before |-> before, clamped |-> clamped]

\* faulty variant of consumed_diff: the amount taken from the pile
taken_diff(amt, clamped) == AsI32(clamped)

\* `diff: *amt as i32` of the ConsumeResource entry: the amount requested
consumed_diff(amt, clamped) == AsI32(amt)

\* `for _j in 0..max { ... delete from the lowest stockpile ... }` of `turn`
\* and of button_system: c = [occ, log, steps, crashed]
RECURSIVE ConsumeLoop(_, _, _, _, _, _, _, _)
ConsumeLoop(c, group_id, id, var, amt, left, j, max) ==
    IF j >= max \/ left = 0 \/ c.crashed THEN c
    ELSE Let(get_lowest_stockpile(c.occ, group_id, var), LAMBDA lowest_id :
         IF lowest_id = NoNode
         THEN [c EXCEPT !.crashed = TRUE]
         ELSE LET stock_amt == c.occ[lowest_id].n
              IN Let(UMin(left, stock_amt), LAMBDA clamped :
                 Let(stock_amt - clamped, LAMBDA rest :
                 ConsumeLoop(
                     [occ |-> [c.occ EXCEPT ![lowest_id] =
                                  IF rest = 0 THEN NoOcc
                                  ELSE Stockpile(var, rest)],
                      log |-> Append(c.log,
                                 ConsumeResource(lowest_id, id, var, rest,
                                                 consumed_diff(amt, clamped))),
                      steps |-> Append(c.steps,
                                 Step(lowest_id, var, stock_amt, clamped)),
                      crashed |-> FALSE],
                     group_id, id, var, amt, left - clamped, j + 1, max))))

\* `for (var, amt) in requested.res.iter()`
RECURSIVE ConsumeBunch(_, _, _, _, _, _)
ConsumeBunch(c, group_id, id, requested, kinds, max) ==
    IF kinds = {} THEN c
    ELSE LET var == CHOOSE k \in kinds : TRUE
         IN ConsumeBunch(
                ConsumeLoop(c, group_id, id, var, requested[var],
                            requested[var], 0, max),
                group_id, id, requested, kinds \ {var}, max)

\* the allocation records of one add_resource call as ProduceResource entries
RECURSIVE ProduceEntries(_, _, _)
ProduceEntries(id, var, actions) ==
    IF actions = << >> THEN << >>
    ELSE <<ProduceResource(id, Head(actions).node, var, Head(actions).abs,
                           Head(actions).diff)>>
         \o ProduceEntries(id, var, Tail(actions))

\* `for (var, amt) in produced.res.iter()`: c = [occ, log, allocs, crashed]
RECURSIVE ProduceBunch(_, _, _, _, _)
ProduceBunch(c, group_id, id, produced, kinds) ==
    IF kinds = {} \/ c.crashed THEN c
    ELSE LET var == CHOOSE k \in kinds : TRUE
         IN Let(add_resource_in_group(c.occ, group_id, var, produced[var]),
                LAMBDA r :
                ProduceBunch(
                    [occ |-> r.occ,
                     log |-> c.log \o ProduceEntries(id, var, r.actions),
                     allocs |-> c.allocs \o r.actions,
                     crashed |-> r.panic],
                    group_id, id, produced, kinds \ {var}))

(* --------------------------- the resolution loop ----------------------- *)
\* faulty variant of can_produce: the head of the list, whatever it asks for
FirstCandidate(occ, constructions) == IF constructions = << >> THEN 0 ELSE 1

\* faulty variant of can_produce: only the head of the list is looked at
HeadIfSatisfiable(occ, constructions) ==
    IF constructions # << >>
       /\ BunchContains(
              get_group_bunch(occ, group_from_node(constructions[1].id)),
              request_resources(constructions[1].var))
    THEN 1 ELSE 0

\* the first position of the candidate list whose request its group has; 0 = none
can_produce(occ, constructions) ==
    LET ok(i) == BunchContains(
                     get_group_bunch(occ, group_from_node(constructions[i].id)),
                     request_resources(constructions[i].var))
        ps == {i \in DOMAIN constructions : ok(i)}
    IN IF ps = {} THEN 0 ELSE CHOOSE i \in ps : \A j \in ps : i <= j

\* faulty variant of RemoveAt: the head of the list is removed
RemoveHead(s, i) == Tail(s)

\* constructions.remove(i)
RemoveAt(s, i) == SubSeq(s, 1, i - 1) \o SubSeq(s, i + 1, Len(s))

\* the run of the construction at position i: cooldown reset, consumption,
\* production; c = [occ, log, crashed]
RunConstruction(c, constructions, i) ==
    LET id == constructions[i].id
        var == constructions[i].var
        occ1 == [c.occ EXCEPT ![id] =
                    IF IsConstr(c.occ[id])
                    THEN Construction(c.occ[id].var, get_cooldown(var))
                    ELSE c.occ[id]]
    IN Let(group_from_node(id), LAMBDA group_id :
       Let(request_resources(var), LAMBDA requested :
       Let(ConsumeBunch(
               [occ |-> occ1, log |-> c.log, steps |-> << >>,
                crashed |-> FALSE],
               group_id, id, requested, DOMAIN requested, MAX_TURN_ITERS),
           LAMBDA cons :
       Let(produce_resources(var), LAMBDA produced :
       Let(ProduceBunch(
               [occ |-> cons.occ, log |-> cons.log, allocs |-> << >>,
                crashed |-> cons.crashed],
               group_id, id, produced, DOMAIN produced),
           LAMBDA prod :
       [occ |-> prod.occ, log |-> prod.log, crashed |-> prod.crashed,
        run |-> [id |-> id, var |-> var, i |-> i, cands |-> constructions,
                 occSel |-> c.occ, occCons |-> cons.occ, occProd |-> prod.occ,
                 logSel |-> Len(c.log), logCons |-> Len(cons.log),
                 logProd |-> Len(prod.log),
                 steps |-> cons.steps, allocs |-> prod.allocs]])))))

\* `for _i in 0..MAX_TURN_ITERS`: c = [occ, log, crashed], runs = the record
\* of the constructions run so far
RECURSIVE ResolveLoop(_, _, _, _)
ResolveLoop(c, constructions, iter, runs) ==
    Let(can_produce(c.occ, constructions), LAMBDA i :
    IF iter >= MAX_TURN_ITERS \/ c.crashed \/ i = 0
    THEN [occ |-> c.occ, log |-> c.log, crashed |-> c.crashed,
          runs |-> runs, left |-> constructions, iters |-> iter]
    ELSE Let(RunConstruction(c, constructions, i), LAMBDA r :
         ResolveLoop([occ |-> r.occ, log |-> r.log, crashed |-> r.crashed],
                     RemoveAt(constructions, i), iter + 1,
                     Append(runs, r.run))))

(* ------------------------------ one turn -------------------------------- *)
\* faulty variant of DecrementCooldowns: the cooldowns are left as they are
KeepCooldowns(occ) == occ

\* `*cooldown -= 1` for every construction with cooldown > 0
DecrementCooldowns(occ) ==
    [n \in NodeIds |->
        IF IsConstr(occ[n]) /\ occ[n].n # 0
        THEN Construction(occ[n].var, occ[n].n - 1)
        ELSE occ[n]]

\* faulty variant of CandidateNodes: the constructions still cooling down too
AllConstructions(occ) == {n \in NodeIds : IsConstr(occ[n])}

\* the nodes collected into `constructions`: cooldown <= 0
CandidateNodes(occ) == {n \in NodeIds : IsConstr(occ[n]) /\ occ[n].n = 0}

\* the orders in which the occupation HashMap may hand the candidates over
CandidateLists(occ) ==
    LET S == CandidateNodes(occ)
        k == Cardinality(S)
    IN {[i \in 1..k |-> [id |-> f[i], var |-> occ[f[i]].var]] :
            f \in {g \in [1..k -> S] : \A a, b \in 1..k : a # b => g[a] # g[b]}}

\* faulty variant of TakeOne: the unit is taken and no entry is logged
TakeOneUnlogged(c, lowest_id, var, wrap) ==
    LET amt == c.occ[lowest_id].n
    IN IF amt = 0 /\ ~wrap
       THEN [c EXCEPT !.crashed = TRUE]
       ELSE [c EXCEPT !.occ = [c.occ EXCEPT ![lowest_id] = Stockpile(var, amt - 1)]]

\* `*amt -= 1` of the eat and travel steps on the pile at lowest_id; on a pile
\* of amount 0 the build decides: wrap (release) or panic (overflow checks)
TakeOne(c, lowest_id, var, wrap) ==
    LET amt == c.occ[lowest_id].n
    IN IF amt = 0 /\ ~wrap
       THEN [c EXCEPT !.crashed = TRUE]
       ELSE [c EXCEPT !.occ = [c.occ EXCEPT ![lowest_id] = Stockpile(var, amt - 1)],
                      !.log = Append(c.log,
                                ConsumeResource(lowest_id, lowest_id, var,
                                                amt - 1, 0 - 1))]

\* faulty variant of Eat: the lowest Food pile is looked up without the test
\* on the pooled Food
EatUnguarded(c, food, wrap) ==
    IF c.crashed THEN c
    ELSE Let(get_lowest_stockpile(c.occ, 0, "Food"), LAMBDA lowest_id :
         IF lowest_id = NoNode THEN [c EXCEPT !.crashed = TRUE]
         ELSE TakeOne(c, lowest_id, "Food", wrap))

\* the eat step: c = [occ, log, next, crashed]
Eat(c, food, wrap) ==
    IF c.crashed THEN c
    ELSE IF food # 0
    THEN Let(get_lowest_stockpile(c.occ, 0, "Food"), LAMBDA lowest_id :
         IF lowest_id = NoNode THEN [c EXCEPT !.crashed = TRUE]
         ELSE TakeOne(c, lowest_id, "Food", wrap))
    ELSE [c EXCEPT !.next = "GameOver"]

\* faulty variant of RetainEdges: the old edges of the home group stay
KeepEdges(es, own) == es

\* faulty variant of clear_plan: the plan stays
keep_plan(ship) == ship

\* ship.planned_move = None
clear_plan(ship) == [ship EXCEPT !.planned_move = NoGroup]

\* map.edges.retain(...) of the travel step
RECURSIVE RetainEdges(_, _)
RetainEdges(es, own) ==
    IF es = << >> THEN << >>
    ELSE (IF Head(es)[1] # own /\ Head(es)[2] # own THEN <<Head(es)>> ELSE << >>)
         \o RetainEdges(Tail(es), own)

\* faulty variant of can_travel: a move to the group the ship is at counts
can_travel_anywhere(ship, fusion) ==
    ship.planned_move # NoGroup /\ fusion # 0

\* the tests of the travel step on the plan and the fuel read before eating
can_travel(ship, fusion) ==
    ship.planned_move # NoGroup /\ fusion # 0
        /\ ship.planned_move # ship.orbiting_group

\* the travel step: c = [occ, log, next, crashed, edges, ship, moved]
Travel(c, fusion, wrap) ==
    IF c.crashed THEN c
    ELSE LET plan == c.ship.planned_move
         IN IF can_travel(c.ship, fusion)
            THEN Let(get_lowest_stockpile(c.occ, 0, "FusionFuel"),
                     LAMBDA lowest_id :
                     IF lowest_id = NoNode THEN [c EXCEPT !.crashed = TRUE]
                     ELSE Let(TakeOne(c, lowest_id, "FusionFuel", wrap), LAMBDA t :
                          IF t.crashed THEN t
                          ELSE [t EXCEPT
                                  !.log = Append(t.log,
                                            ShipMove(c.ship.orbiting_group, plan)),
                                  !.edges = Append(
                                              RetainEdges(c.edges, c.ship.own_group),
                                              <<c.ship.own_group, plan>>),
                                  !.ship = clear_plan(c.ship),
                                  !.moved = TRUE]))
            ELSE [c EXCEPT !.ship = clear_plan(c.ship)]

\* faulty variant of count_up: the counter stays
count_same(count) == count

\* turns.count += 1
count_up(count) == count + 1

\* the body of `for _ in events.iter()` of `turn` for one EndTurn event.
\* s = [occ, edges, ship, log, cur, turns, next, crashed]; constructions is the
\* candidate list in the order the HashMap yields it; the result carries the
\* record `rec` of what the turn did
turn_body(s, constructions, wrap) ==
    Let(ResolveLoop([occ |-> DecrementCooldowns(s.occ), log |-> s.log,
                     crashed |-> FALSE], constructions, 0, << >>),
        LAMBDA loop :
    Let(get_group_bunch(loop.occ, 0), LAMBDA bunch :
    Let(GetOr0(bunch, "Food"), LAMBDA food :
    Let(GetOr0(bunch, "FusionFuel"), LAMBDA fusion :
    Let(Eat([occ |-> loop.occ, log |-> loop.log, next |-> s.next,
             crashed |-> loop.crashed], food, wrap),
        LAMBDA eat :
    Let(Travel([occ |-> eat.occ, log |-> eat.log, next |-> eat.next,
                crashed |-> eat.crashed, edges |-> s.edges,
                ship |-> s.ship, moved |-> FALSE], fusion, wrap),
        LAMBDA trav :
    Let(~trav.crashed /\ ULt(100, fusion) /\ ULt(100, food), LAMBDA won :
    [occ |-> trav.occ, edges |-> trav.edges, ship |-> trav.ship,
     log |-> trav.log, cur |-> s.cur, turns |-> count_up(s.turns),
     next |-> IF won THEN "GameWon" ELSE trav.next,
     crashed |-> trav.crashed,
     rec |-> [drained |-> (s.log = << >> /\ s.cur = NoAction),
              occStart |-> s.occ, logStart |-> Len(s.log),
              cands |-> constructions, runs |-> loop.runs,
              left |-> loop.left, occLoop |-> loop.occ,
              logLoop |-> Len(loop.log),
              food |-> food, fusion |-> fusion,
              occEat |-> eat.occ, logEat |-> Len(eat.log),
              moved |-> trav.moved, logEnd |-> Len(trav.log),
              occEnd |-> trav.occ, log |-> trav.log,
              shipStart |-> s.ship, edgesStart |-> s.edges,
              shipEnd |-> trav.ship, edgesEnd |-> trav.edges,
              turnsStart |-> s.turns,
              nextStart |-> s.next,
              nextEnd |-> IF won THEN "GameWon" ELSE trav.next,
              loopCrashed |-> loop.crashed, eatCrashed |-> eat.crashed,
              crashed |-> trav.crashed]])))))))

\* every outcome of one turn from s: any candidate order, either build
TurnOutcomes(s) ==
    {turn_body(s, cs, wrap) :
        cs \in CandidateLists(DecrementCooldowns(s.occ)), wrap \in BOOLEAN}

\* the outcomes of the whole `for _ in events.iter()` over k events; each
\* element is [s |-> state, recs |-> the records of the turns resolved]
RECURSIVE TurnsOutcomes(_, _)
TurnsOutcomes(S, k) ==
    IF k = 0 THEN S
    ELSE TurnsOutcomes(
            UNION {IF x.s.crashed THEN {x}
                   ELSE {[s |-> [f \in DOMAIN x.s \ {"rec"} |-> o[f]],
                          recs |-> Append(x.recs, o.rec)] :
                            o \in TurnOutcomes(x.s)} : x \in S},
            k - 1)

(* ------------------------------- state --------------------------------- *)
VARIABLES
    occupation,   \* Map.occupation: NodeId -> occupant (NoOcc = no entry)
    edges,        \* Map.edges
    ship,         \* the Ship component
    autoactions,  \* AutoActions: [actions, current]
    turns,        \* TurnCount.count
    app_state,    \* State<AppState>
    next_state,   \* NextState<AppState>: "None" or the state asked for
    events,       \* the EndTurn events sent and not yet read by `turn`, oldest
                  \* first: [busy |-> sent while the log was not drained,
                  \*         played |-> playback steps since it was sent]
    crashed,      \* a panic ended the program
    last,         \* the latest run of `turn`: [events |-> the events it read,
                  \*                           recs |-> the records of its turns]
    added,        \* the latest call of add_resource_in_group made on its own
    called,       \* the latest call of a function of Bunch or Map made on its own
    ops,          \* the UI operations done so far
    resolved      \* the turns resolved so far

vars == <<occupation, edges, ship, autoactions, turns, app_state, next_state,
          events, crashed, last, added, called, ops, resolved>>

NoRun == [events |-> << >>, recs |-> << >>]
NoCall == [v |-> "-", amt |-> 0, before |-> << >>, after |-> << >>,
           actions |-> << >>, passes |-> 0, panic |-> FALSE]

NoBunches == [op |-> "-"]

done == autoactions.actions = << >> /\ autoactions.current = NoAction

\* AppState::Gameplay is entered and nothing has panicked: the systems run
Running == app_state = "Gameplay" /\ ~crashed

(* ------------------------------ setup_scene ---------------------------- *)
SetupOccupation ==
    LET o0 == [[n \in NodeIds |-> NoOcc] EXCEPT ![0] = Construction("SolarField", 0)]
        o1 == add_resource_in_group(o0, 0, "FusionFuel", 20).occ
        o2 == add_resource_in_group(o1, 0, "Material", 20).occ
    IN add_resource_in_group(o2, 0, "Food", 20).occ

Init ==
    /\ occupation = SetupOccupation
    /\ edges = InitEdges
    /\ ship = [orbiting_group |-> 1, own_group |-> 0, planned_move |-> NoGroup]
    /\ autoactions = [actions |-> << >>, current |-> NoAction]
    /\ turns = 1
    /\ app_state = "Gameplay"
    /\ next_state = "None"
    /\ events = << >>
    /\ crashed = FALSE
    /\ last = NoRun
    /\ added = NoCall
    /\ called = NoBunches
    /\ ops = 0
    /\ resolved = 0

(* ------------------------------ EndTurn -------------------------------- *)
\* send_end_turn (Delete key) and the EndTurn button of button_system
send_end_turn ==
    /\ Running
    /\ Len(events) < MaxEvents
    /\ events' = Append(events, [busy |-> ~done, played |-> 0])
    /\ UNCHANGED <<occupation, edges, ship, autoactions, turns, app_state,
                   next_state, crashed, last, added, called, ops, resolved>>

\* the event buffer of add_event::<EndTurn>() drops the events `turn` has not
\* read within EVENT_UPDATES updates, oldest first
drop_events ==
    /\ events # << >>
    /\ \E k \in 1..Len(events) : events' = SubSeq(events, k + 1, Len(events))
    /\ UNCHANGED <<occupation, edges, ship, autoactions, turns, app_state,
                   next_state, crashed, last, added, called, ops, resolved>>

\* the system `turn` when it has events to read; with the log not drained it
\* returns at once and leaves everything, the events included, as it is. A
\* state it asked for is entered before the next update, so it never runs
\* with a transition pending
turn ==
    /\ Running
    /\ next_state = "None"
    /\ done
    /\ events # << >>
    /\ resolved + Len(events) <= MaxResolved
    /\ \E x \in TurnsOutcomes(
                    {[s |-> [occ |-> occupation, edges |-> edges, ship |-> ship,
                             log |-> autoactions.actions,
                             cur |-> autoactions.current, turns |-> turns,
                             next |-> next_state, crashed |-> FALSE],
                      recs |-> << >>]}, Len(events)) :
          /\ occupation' = x.s.occ
          /\ edges' = x.s.edges
          /\ ship' = x.s.ship
          /\ autoactions' = [actions |-> x.s.log, current |-> x.s.cur]
          /\ turns' = x.s.turns
          /\ next_state' = x.s.next
          /\ crashed' = x.s.crashed
          /\ last' = [events |-> events, recs |-> x.recs]
          /\ resolved' = resolved + Len(x.recs)
    /\ events' = << >>
    /\ UNCHANGED <<app_state, added, called, ops>>

\* apply_state_transition of add_state::<AppState>()
state_transition ==
    /\ ~crashed
    /\ next_state # "None"
    /\ app_state' = next_state
    /\ next_state' = "None"
    /\ UNCHANGED <<occupation, edges, ship, autoactions, turns, events,
                   crashed, last, added, called, ops, resolved>>

(* ----------------------------- playback -------------------------------- *)
\* faulty variant of take_next: the head is shown and stays in the log
take_none(aa) ==
    IF aa.actions = << >>
    THEN [aa EXCEPT !.current = NoAction]
    ELSE [aa EXCEPT !.current = aa.actions[1]]

\* faulty variant of take_next: the entry appended last is taken
take_last(aa) ==
    IF aa.actions = << >>
    THEN [aa EXCEPT !.current = NoAction]
    ELSE [actions |-> SubSeq(aa.actions, 1, Len(aa.actions) - 1),
          current |-> aa.actions[Len(aa.actions)]]

\* the end of play_autoactions: current = None on an empty log, else
\* actions.remove(0) becomes current
take_next(aa) ==
    IF aa.actions = << >>
    THEN [aa EXCEPT !.current = NoAction]
    ELSE [actions |-> Tail(aa.actions), current |-> Head(aa.actions)]

\* play_autoactions when its timer has finished: at most once in an update,
\* so an unread event sees at most EVENT_UPDATES playback steps
play_autoactions ==
    /\ Running
    /\ ~done
    /\ \A i \in DOMAIN events : events[i].played < EVENT_UPDATES
    /\ events' = [i \in DOMAIN events |->
                     [events[i] EXCEPT !.played = events[i].played + 1]]
    /\ ship' = IF autoactions.current.t = "ShipMove"
               THEN [ship EXCEPT !.orbiting_group = autoactions.current.to]
               ELSE ship
    /\ autoactions' = take_next(autoactions)
    /\ UNCHANGED <<occupation, edges, turns, app_state, next_state,
                   crashed, last, added, called, ops, resolved>>

(* ------------------------------ UI: transfer --------------------------- *)
\* the nodes of the groups of a sequence of groups, in order
RECURSIVE NodesOf(_)
NodesOf(gs) == IF gs = << >> THEN << >> ELSE groups[Head(gs)] \o NodesOf(Tail(gs))

\* ui_on_node_selected_move: the nodes a transfer from id may go to
MoveNears(es, id) ==
    LET group_id == group_from_node(id)
        keep(g) == group_id = 0 \/ g = 0
    IN NodesOf(Append(SelectSeq(star(es, group_id), keep), group_id))

\* the transfer of `highlight`: the occupation and the log entries after a
\* click on node with MovingTo(from_id, nears, split); hit = a transfer was made
Transfer(occ, from_id, split, node) ==
    LET from_var == occ[from_id].var
        from_amt_full == occ[from_id].n
        from_amt == IF split THEN UHalf(from_amt_full) ELSE from_amt_full
        whole == from_amt = from_amt_full
        src == IF whole THEN NoOcc
               ELSE Stockpile(from_var, USub(from_amt_full, from_amt))
        consume == ConsumeResource(from_id, node, from_var,
                                   IF whole THEN 0 ELSE USub(from_amt_full, from_amt),
                                   AsI32(from_amt))
    IN IF IsStock(occ[node])
       THEN IF occ[node].var = from_var
            THEN LET clamped == UMin(UAdd(from_amt, occ[node].n), 100)
                 IN [hit |-> TRUE,
                     occ |-> [occ EXCEPT ![from_id] = src,
                                         ![node] = Stockpile(from_var, clamped)],
                     log |-> <<consume,
                               ProduceResource(node, node, from_var, clamped,
                                               AsI32(from_amt))>>]
            ELSE [hit |-> FALSE, occ |-> occ, log |-> << >>]
       ELSE IF occ[node] = NoOcc
       THEN [hit |-> TRUE,
             occ |-> [occ EXCEPT ![from_id] = src,
                                 ![node] = Stockpile(from_var, from_amt)],
             log |-> <<consume,
                       ProduceResource(node, node, from_var, from_amt,
                                       AsI32(from_amt))>>]
       ELSE [hit |-> FALSE, occ |-> occ, log |-> << >>]

\* UiButton::MoveMenu or move_hotkeys on the node id (ui_on_node_selected_move
\* spawns MovingTo(id, nears, split)), then a left click on node in `highlight`
manual_transfer(id, split, node) ==
    LET nears == MoveNears(edges, id)
        r == Transfer(occupation, id, split, node)
    IN /\ Running
       /\ ops < MaxOps
       /\ node \in SeqToSet(nears) /\ node # id
       /\ IsStock(occupation[id])
       /\ occupation' = r.occ
       /\ autoactions' = [autoactions EXCEPT !.actions = autoactions.actions \o r.log]
       /\ ops' = ops + 1
       /\ UNCHANGED <<edges, ship, turns, app_state, next_state, events,
                      crashed, last, added, called, resolved>>

(* --------------------------- UI: build, demolish ----------------------- *)
\* ui_on_node_selected_constr offers the actions of a node only there
is_ship_present(es, id) ==
    group_from_node(id) = 0 \/ group_from_node(id) \in SeqToSet(star(es, 0))

\* faulty variant of can_buy: the exact price is refused
can_buy_above(cash, cost) == ULt(cost, cash)

\* let can_buy = cash >= var.get_material_cost()
can_buy(cash, cost) == ULe(cost, cash)

\* UiButton::Construct(node_id, var) of button_system: the press builds, or
\* does nothing on an occupied node or without the price
build(node_id, var) ==
    LET group_id == group_from_node(node_id)
        cash == GetOr0(get_group_bunch(occupation, group_id), "Material")
        requested == BunchSingle("Material", get_material_cost(var))
        c == ConsumeBunch(
                 [occ |-> [occupation EXCEPT ![node_id] = Construction(var, 0)],
                  log |-> autoactions.actions, steps |-> << >>, crashed |-> FALSE],
                 group_id, node_id, requested, DOMAIN requested, BUILD_ITERS)
    IN /\ Running
       /\ ops < MaxOps
       /\ is_ship_present(edges, node_id)
       /\ IF occupation[node_id] = NoOcc
              /\ can_buy(cash, get_material_cost(var))
          THEN /\ occupation' = c.occ
               /\ autoactions' = [autoactions EXCEPT !.actions = c.log]
               /\ crashed' = c.crashed
          ELSE UNCHANGED <<occupation, autoactions, crashed>>
       /\ ops' = ops + 1
       /\ UNCHANGED <<edges, ship, turns, app_state, next_state, events, last,
                      added, called, resolved>>

\* UiButton::DestroyMenu(node_id) of button_system, offered on a construction
demolish(node_id) ==
    /\ Running
    /\ ops < MaxOps
    /\ is_ship_present(edges, node_id)
    /\ IsConstr(occupation[node_id])
    /\ occupation' = [occupation EXCEPT ![node_id] = NoOcc]
    /\ ops' = ops + 1
    /\ UNCHANGED <<edges, ship, autoactions, turns, app_state, next_state,
                   events, crashed, last, added, called, resolved>>

(* --------------------------- UI: destination --------------------------- *)
\* `nears` of highlight: the orbited group and its neighbours but the ship
PlanNears(es, orbiting_group) ==
    {orbiting_group} \cup (SeqToSet(star(es, orbiting_group)) \ {0})

\* `highlight`: a left click on a planet
set_destination(planet) ==
    /\ Running
    /\ ops < MaxOps
    /\ GetOr0(get_group_bunch(occupation, 0), "FusionFuel") # 0
    /\ planet \in PlanNears(edges, ship.orbiting_group)
    /\ ship' = [ship EXCEPT !.planned_move = planet]
    /\ ops' = ops + 1
    /\ UNCHANGED <<occupation, edges, autoactions, turns, app_state, next_state,
                   events, crashed, last, added, called, resolved>>

(* ------------------------------ the game ------------------------------- *)
UiNodes == 0..MaxUiNode

Next ==
    \/ send_end_turn
    \/ drop_events
    \/ turn
    \/ state_transition
    \/ play_autoactions
    \/ \E id \in UiNodes, split \in BOOLEAN, node \in UiNodes :
          manual_transfer(id, split, node)
    \/ \E node_id \in UiNodes, var \in ConstructionVariant : build(node_id, var)
    \/ \E node_id \in UiNodes : demolish(node_id)
    \/ \E planet \in GroupIds \ {0} : set_destination(planet)

Spec == Init /\ [][Next]_vars

(* ------------------- the turn on a range of map states ----------------- *)
\* The states below are states of a game in progress.  The first family is
\* the setup state after k turns resolved and played back with no other
\* operation; the second has the home group without its solar field and the
\* three nodes of group 1 (the group the ship orbits) holding what transfers
\* and builds can put there.

\* the numbers of turns played before the first family's states
ScenarioTurns == {0, 18, 19}

SetupShip == [orbiting_group |-> 1, own_group |-> 0, planned_move |-> NoGroup]

RECURSIVE OccAfterTurns(_, _)
OccAfterTurns(occ, k) ==
    IF k = 0 THEN occ
    ELSE OccAfterTurns(
            CHOOSE r \in
                {turn_body([occ |-> o, edges |-> InitEdges, ship |-> SetupShip,
                            log |-> << >>, cur |-> NoAction, turns |-> 1,
                            next |-> "None", crashed |-> FALSE],
                           CHOOSE cs \in CandidateLists(DecrementCooldowns(o)) : TRUE,
                           FALSE).occ : o \in {occ}} : TRUE,
            k - 1)

\* what the nodes 5, 6 and 7 of group 1 hold in the second family
ProdFirst == {Construction("SolarField", 0), Construction("ChemicalPlant", 0)}
ProdSecond ==
    {NoOcc, Construction("Quarry", 0), Stockpile("Power", 99),
     Stockpile("Material", 1)}
ProdThird ==
    {NoOcc, Stockpile("Power", 42), Stockpile("Power", 99),
     Stockpile("Power", 100), Stockpile("Material", 3)}

ProdOccupation(a, b, c) ==
    [SetupOccupation EXCEPT ![0] = NoOcc, ![5] = a, ![6] = b, ![7] = c]

\* third family: the piles of one kind in the home group, around the winning
\* amount and around nothing
HomePiles(var) ==
    {<<NoOcc, NoOcc>>, <<Stockpile(var, 1), NoOcc>>,
     <<Stockpile(var, 100), NoOcc>>, <<Stockpile(var, 100), Stockpile(var, 1)>>,
     <<Stockpile(var, 100), Stockpile(var, 2)>>}

HomeOccupation(food, fuel) ==
    [[n \in NodeIds |-> NoOcc] EXCEPT ![0] = food[1], ![1] = food[2],
                                      ![2] = fuel[1], ![3] = fuel[2]]

\* the destinations a click can have planned for a ship orbiting group 1
ScenarioPlans == {NoGroup, 1, 2}

InitTurn ==
    /\ \/ \E k \in ScenarioTurns :
             /\ occupation = OccAfterTurns(SetupOccupation, k)
             /\ turns = k + 1
       \/ \E a \in ProdFirst, b \in ProdSecond, c \in ProdThird :
             /\ occupation = ProdOccupation(a, b, c)
             /\ turns = 10
       \/ \E food \in HomePiles("Food"), fuel \in HomePiles("FusionFuel") :
             /\ occupation = HomeOccupation(food, fuel)
             /\ turns = 10
    /\ edges = InitEdges
    /\ \E plan \in ScenarioPlans : ship = [SetupShip EXCEPT !.planned_move = plan]
    /\ autoactions = [actions |-> << >>, current |-> NoAction]
    /\ app_state = "Gameplay"
    /\ next_state = "None"
    /\ events = << >>
    /\ crashed = FALSE
    /\ last = NoRun
    /\ added = NoCall
    /\ called = NoBunches
    /\ ops = 0
    /\ resolved = 0

NextTurn ==
    \/ send_end_turn
    \/ drop_events
    \/ turn
    \/ state_transition
    \/ play_autoactions

SpecTurn == InitTurn /\ [][NextTurn]_vars

(* --------------------- scenarios: the game, few nodes ------------------ *)
\* the game with one choice for each operation of the UI: the Food pile of
\* node 3 moved whole to node 5 of the orbited group; a chemical
\* plant placed on the empty home node 4; the solar field of node 0
\* demolished; group 2 planned as destination
NextGame ==
    \/ NextTurn
    \/ manual_transfer(3, FALSE, 5)
    \/ build(4, "ChemicalPlant")
    \/ demolish(0)
    \/ set_destination(2)

SpecGame == Init /\ [][NextGame]_vars

(* ------------------- scenarios: playback to the end -------------------- *)
\* The turn systems under the scheduling of the engine: every system of the
\* Update schedule runs in every update of AppState::Gameplay, a requested
\* state is entered before the next update, and the event buffer is swapped
\* once per update.  The player presses EndTurn with no signal pending.  A
\* signal sent with the log drained is read by `turn` in the same or the next
\* update, before the buffer can drop it; only a signal `turn` leaves unread,
\* the log not being drained, or one sent after the game has ended, ages out.
send_when_idle == events = << >> /\ send_end_turn

drop_unread == ~(done /\ Running /\ next_state = "None") /\ drop_events

NextPlay ==
    \/ send_when_idle
    \/ drop_unread
    \/ turn
    \/ state_transition
    \/ play_autoactions

\* `turn` has signals to resolve: the guard of the action turn
TurnDue ==
    /\ Running
    /\ next_state = "None"
    /\ done
    /\ events # << >>
    /\ resolved + Len(events) <= MaxResolved

\* weak fairness of turn, its enabling condition written out
TurnRuns == []<>(~TurnDue) \/ []<><<turn>>_vars

SpecPlay ==
    /\ InitTurn
    /\ [][NextPlay]_vars
    /\ WF_vars(play_autoactions)
    /\ WF_vars(state_transition)
    /\ WF_vars(drop_unread)
    /\ TurnRuns

(* ------------------- scenarios: turns and destinations ----------------- *)
\* the turn systems together with the click that plans a destination
NextShip ==
    \/ NextTurn
    \/ \E planet \in GroupIds \ {0} : set_destination(planet)

SpecShip == InitTurn /\ [][NextShip]_vars

(* --------------------- scenarios: turns and transfers ------------------ *)
\* the turn systems together with the manual transfer
NextMove ==
    \/ NextTurn
    \/ \E id \in UiNodes, split \in BOOLEAN, node \in UiNodes :
          manual_transfer(id, split, node)

\* the home group holds piles of Food and Fusion Fuel, nothing is planned
InitMove ==
    /\ \E food \in HomePiles("Food"), fuel \in HomePiles("FusionFuel") :
          occupation = HomeOccupation(food, fuel)
    /\ turns = 10
    /\ edges = InitEdges
    /\ ship = SetupShip
    /\ autoactions = [actions |-> << >>, current |-> NoAction]
    /\ app_state = "Gameplay"
    /\ next_state = "None"
    /\ events = << >>
    /\ crashed = FALSE
    /\ last = NoRun
    /\ added = NoCall
    /\ called = NoBunches
    /\ ops = 0
    /\ resolved = 0

SpecMove == InitMove /\ [][NextMove]_vars

(* ---------------- add_resource_in_group on a range of groups ------------ *)
\* most calls of add_resource_in_group in a run
MaxAdds == 1

\* what a node of group 1 holds before the calls
AddOptions ==
    {NoOcc, Construction("SolarField", 0), Stockpile("Material", 50),
     Stockpile("Material", 98), Stockpile("Material", 99),
     Stockpile("Material", 100), Stockpile("Power", 99)}

\* the amounts asked for
AddAmounts == {0, 1, 3, 30, 100, 150}

AddOccupation(a, b, c) ==
    [[n \in NodeIds |-> NoOcc] EXCEPT ![5] = a, ![6] = b, ![7] = c]

InitAdd ==
    /\ \E a, b, c \in AddOptions : occupation = AddOccupation(a, b, c)
    /\ edges = InitEdges
    /\ ship = SetupShip
    /\ autoactions = [actions |-> << >>, current |-> NoAction]
    /\ turns = 1
    /\ app_state = "Gameplay"
    /\ next_state = "None"
    /\ events = << >>
    /\ crashed = FALSE
    /\ last = NoRun
    /\ added = NoCall
    /\ called = NoBunches
    /\ ops = 0
    /\ resolved = 0

\* one call map.add_resource_in_group(&1, &v, amt)
call_add_resource(v, amt) ==
    /\ ~crashed
    /\ ops < MaxAdds
    /\ \E r \in {add_resource_in_group(occupation, 1, v, amt)} :
          /\ occupation' = r.occ
          /\ crashed' = r.panic
          /\ added' = [v |-> v, amt |-> amt, before |-> occupation,
                       after |-> r.occ, actions |-> r.actions,
                       passes |-> r.passes, panic |-> r.panic]
    /\ ops' = ops + 1
    /\ UNCHANGED <<edges, ship, autoactions, turns, app_state, next_state,
                   events, last, called, resolved>>

NextAdd ==
    \E v \in {"Material", "Power"}, amt \in AddAmounts : call_add_resource(v, amt)

SpecAdd == InitAdd /\ [][NextAdd]_vars

(* -------------------- scenarios: picking a stockpile ------------------- *)
\* one call map.get_lowest_stockpile(&1, &v); without a pile of the kind the
\* call panics ("no stockpile")
call_get_lowest_stockpile(v) ==
    /\ ~crashed
    /\ ops < MaxAdds
    /\ \E node \in {get_lowest_stockpile(occupation, 1, v)} :
          /\ called' = [op |-> "get_lowest_stockpile", occ |-> occupation,
                        v |-> v, node |-> node]
          /\ crashed' = (node = NoNode)
    /\ ops' = ops + 1
    /\ UNCHANGED <<occupation, edges, ship, autoactions, turns, app_state,
                   next_state, events, last, added, resolved>>

NextPick ==
    \/ NextAdd
    \/ \E v \in {"Material", "Power"} : call_get_lowest_stockpile(v)

SpecPick == InitAdd /\ [][NextPick]_vars

(* ------------------------- scenarios: bunches -------------------------- *)
\* the bunches over two kinds and small amounts; a kind may have no entry
BunchKinds == {"Food", "Power"}
BunchAmounts == {0, 1, 2}
Bunches ==
    UNION {[ks -> BunchAmounts] : ks \in SUBSET BunchKinds}

InitBunch ==
    /\ occupation = [n \in NodeIds |-> NoOcc]
    /\ edges = InitEdges
    /\ ship = SetupShip
    /\ autoactions = [actions |-> << >>, current |-> NoAction]
    /\ turns = 1
    /\ app_state = "Gameplay"
    /\ next_state = "None"
    /\ events = << >>
    /\ crashed = FALSE
    /\ last = NoRun
    /\ added = NoCall
    /\ \E a, b, c \in Bunches : called = [op |-> "new", a |-> a, b |-> b, c |-> c]
    /\ ops = 0
    /\ resolved = 0

\* a.contains(&Bunch::single(var, amt))
call_contains(var, amt) ==
    /\ called.op = "new"
    /\ called' = [op |-> "contains", a |-> called.a, b |-> called.b,
                  c |-> called.c, var |-> var, amt |-> amt,
                  out |-> BunchContains(called.a, BunchSingle(var, amt))]
    /\ UNCHANGED <<occupation, edges, ship, autoactions, turns, app_state,
                   next_state, events, crashed, last, added, ops, resolved>>

\* a + b, b + a, (a + b) + c and a + (b + c)
call_add ==
    /\ called.op = "new"
    /\ called' = [op |-> "add", a |-> called.a, b |-> called.b, c |-> called.c,
                  ab |-> BunchAdd(called.a, called.b),
                  ba |-> BunchAdd(called.b, called.a),
                  ab_c |-> BunchAdd(BunchAdd(called.a, called.b), called.c),
                  a_bc |-> BunchAdd(called.a, BunchAdd(called.b, called.c))]
    /\ UNCHANGED <<occupation, edges, ship, autoactions, turns, app_state,
                   next_state, events, crashed, last, added, ops, resolved>>

NextBunch ==
    \/ \E var \in BunchKinds, amt \in BunchAmounts \cup {3} :
          call_contains(var, amt)
    \/ call_add

SpecBunch == InitBunch /\ [][NextBunch]_vars

(* -------------------- scenarios: placing a construction ---------------- *)
\* what a node of group 1 holds before the Construct button is pressed
BuildOptions ==
    {NoOcc, Construction("SolarField", 0), Stockpile("Material", 0),
     Stockpile("Material", 1), Stockpile("Material", 2),
     Stockpile("Material", 4), Stockpile("Material", 20),
     Stockpile("Power", 5)}

BuildNodes == SeqToSet(groups[1])

InitBuild ==
    /\ \E a, b, c \in BuildOptions : occupation = AddOccupation(a, b, c)
    /\ edges = InitEdges
    /\ ship = SetupShip
    /\ autoactions = [actions |-> << >>, current |-> NoAction]
    /\ turns = 1
    /\ app_state = "Gameplay"
    /\ next_state = "None"
    /\ events = << >>
    /\ crashed = FALSE
    /\ last = NoRun
    /\ added = NoCall
    /\ called = NoBunches
    /\ ops = 0
    /\ resolved = 0

NextBuild ==
    \E node_id \in BuildNodes, var \in ConstructionVariant : build(node_id, var)

SpecBuild == InitBuild /\ [][NextBuild]_vars

(* ---------------------- scenarios: cooling down ------------------------ *)
\* the setup state with, in group 1, a construction at any point of its
\* cooldown on node 5, from 0 (newly built) to the cooldown of its kind
\* (it has just run), and what it asks for on the nodes 6 and 7
CoolFirst ==
    {Construction("SolarField", 0), Construction("SolarField", 1),
     Construction("PlanetFarm", 0), Construction("PlanetFarm", 1),
     Construction("PlanetFarm", 2), Construction("Quarry", 0),
     Construction("Quarry", 1), Construction("Quarry", 2),
     Construction("Quarry", 3)}
CoolSecond == {Stockpile("Power", 100), Stockpile("Material", 20)}
CoolThird == {NoOcc, Stockpile("Power", 50)}

CoolOccupation(a, b, c) ==
    [n \in NodeIds |->
        IF n = 5 THEN a ELSE IF n = 6 THEN b ELSE IF n = 7 THEN c
        ELSE SetupOccupation[n]]

InitCool ==
    /\ \E a \in CoolFirst, b \in CoolSecond, c \in CoolThird :
          /\ occupation = CoolOccupation(a, b, c)
          /\ turns = 10
    /\ edges = InitEdges
    /\ ship = SetupShip
    /\ autoactions = [actions |-> << >>, current |-> NoAction]
    /\ app_state = "Gameplay"
    /\ next_state = "None"
    /\ events = << >>
    /\ crashed = FALSE
    /\ last = NoRun
    /\ added = NoCall
    /\ called = NoBunches
    /\ ops = 0
    /\ resolved = 0

NextCool ==
    \/ send_end_turn
    \/ turn
    \/ play_autoactions

SpecCool == InitCool /\ [][NextCool]_vars

(* ------------------------------ properties ----------------------------- *)
\* the records of the turns the latest run of `turn` resolved
LastRecs == {last.recs[i] : i \in DOMAIN last.recs}
\* the constructions that ran in a turn
RunsOf(r) == {r.runs[i] : i \in DOMAIN r.runs}
AllRuns == UNION {RunsOf(r) : r \in LastRecs}

\* the pooled amount of kind k in group g
Pooled(occ, g, k) == GetOr0(get_group_bunch(occ, g), k)

\* the request of a candidate is contained in the pooled bunch of its group
Satisfiable(occ, cand) ==
    BunchContains(get_group_bunch(occ, group_from_node(cand.id)),
                  request_resources(cand.var))

\* a log entry written for the construction at node id
EntryOf(e, id) ==
    \/ e.t = "ConsumeResource" /\ e.to = id
    \/ e.t = "ProduceResource" /\ e.from = id

\* C1: in every reachable state every node that holds a stockpile has an
\* amount between 1 and 100 inclusive
C1_StockpileAmountInRange ==
    \A n \in NodeIds :
        IsStock(occupation[n]) =>
            ULe(1, occupation[n].n) /\ ULe(occupation[n].n, MAX_STOCKPILE)

\* C2: after every resolved turn no node holds a stockpile of amount 0
C2_NoZeroStockpileAfterTurn ==
    \A r \in LastRecs :
        ~r.crashed =>
            \A n \in NodeIds : ~(IsStock(r.occEnd[n]) /\ r.occEnd[n].n = 0)

\* C3: every turn resolved began with the action log drained (no queued entry
\* and no entry in playback), also the later turns of one run of `turn`
C3_TurnsBeginDrained == \A r \in LastRecs : r.drained

\* C4: an EndTurn signal delivered while the action log was not drained is
\* never resolved later
C4_BusySignalNeverResolved ==
    \A i \in DOMAIN last.events : ~last.events[i].busy

\* C5: the construction that runs is the first candidate in list order whose
\* request its group's pooled bunch contains; a construction runs only with
\* cooldown 0 after the decrement and a contained request, and what the loop
\* changes and logs belongs to a construction that ran
C5_FirstSatisfiableRuns ==
    \A r \in LastRecs :
        /\ \A run \in RunsOf(r) :
              /\ run.cands[run.i] = [id |-> run.id, var |-> run.var]
              /\ Satisfiable(run.occSel, run.cands[run.i])
              /\ \A p \in 1..(run.i - 1) : ~Satisfiable(run.occSel, run.cands[p])
              /\ IsConstr(r.occStart[run.id])
              /\ r.occStart[run.id].var = run.var
              /\ r.occStart[run.id].n \in {0, 1}
        /\ \A n \in NodeIds :
              (IsConstr(r.occStart[n]) /\ \A run \in RunsOf(r) : run.id # n) =>
                  r.occLoop[n] =
                      Construction(r.occStart[n].var,
                                   IF r.occStart[n].n > 0 THEN r.occStart[n].n - 1
                                   ELSE 0)
        /\ \A j \in (r.logStart + 1)..r.logLoop :
              \E run \in RunsOf(r) : EntryOf(r.log[j], run.id)

\* a candidate was passed over and a later one ran; both ran in the end
C5_SkippedThenRan ==
    \E r \in LastRecs :
        /\ Len(r.runs) = 2
        /\ r.runs[1].i = 2
        /\ r.runs[2].id = r.runs[1].cands[1].id

\* C6: when the loop stops no remaining candidate is satisfiable; a starved
\* candidate keeps cooldown 0, has no log entry, and the piles of its group
\* are as they were when no construction of the group ran
C6_NoSatisfiableCandidateLeft ==
    \A r \in LastRecs :
        /\ {r.left[p].id : p \in DOMAIN r.left} =
              {n \in NodeIds : IsConstr(r.occStart[n]) /\ r.occStart[n].n <= 1}
                  \ {run.id : run \in RunsOf(r)}
        /\ \A p \in DOMAIN r.left :
              /\ ~Satisfiable(r.occLoop, r.left[p])
              /\ r.occLoop[r.left[p].id] = Construction(r.left[p].var, 0)
              /\ \A j \in (r.logStart + 1)..r.logLoop :
                    ~EntryOf(r.log[j], r.left[p].id)
              /\ (\A run \in RunsOf(r) :
                      group_from_node(run.id) # group_from_node(r.left[p].id)) =>
                    \A n \in SeqToSet(groups[group_from_node(r.left[p].id)]) :
                        (IsStock(r.occStart[n]) \/ IsStock(r.occLoop[n])) =>
                            r.occLoop[n] = r.occStart[n]

\* a candidate passed over before another ran is still starved at the end
C6_StarvedAfterOthersRan ==
    \E r \in LastRecs : \E run \in RunsOf(r) :
        \E p \in DOMAIN r.left, q \in 1..(run.i - 1) : run.cands[q] = r.left[p]

\* the amounts of the piles of kind k in group g
PileAmounts(occ, g, k) ==
    {occ[n].n : n \in {m \in SeqToSet(groups[g]) :
                          IsStock(occ[m]) /\ occ[m].var = k}}

\* the occupation after the steps of a consumption loop are replayed on it
RECURSIVE ReplaySteps(_, _)
ReplaySteps(occ, steps) ==
    IF steps = << >> THEN occ
    ELSE ReplaySteps(
            [occ EXCEPT ![Head(steps).node] =
                IF Head(steps).clamped = Head(steps).before THEN NoOcc
                ELSE Stockpile(Head(steps).var,
                               Head(steps).before - Head(steps).clamped)],
            Tail(steps))

\* each step takes from a pile that is then the smallest of its kind, and a
\* further step of the same kind follows only a step that emptied its pile
StepsTakeLowest(occ, g, steps) ==
    \A j \in DOMAIN steps :
        LET st == steps[j]
            at == ReplaySteps(occ, SubSeq(steps, 1, j - 1))
        IN /\ at[st.node] = Stockpile(st.var, st.before)
           /\ \A a \in PileAmounts(at, g, st.var) : ULe(st.before, a)
           /\ ULe(st.clamped, st.before)
           /\ (j < Len(steps) /\ steps[j + 1].var = st.var) =>
                 st.clamped = st.before

RECURSIVE SumClamped(_, _)
SumClamped(steps, k) ==
    IF steps = << >> THEN 0
    ELSE (IF Head(steps).var = k THEN Head(steps).clamped ELSE 0)
         + SumClamped(Tail(steps), k)

\* C7: a construction that runs lowers the pooled amount of each requested
\* kind by exactly the amount requested, taking from the pile that is then the
\* smallest and moving on only after that pile is emptied and removed
C7_ConsumesFromLowest ==
    \A run \in AllRuns :
        /\ \A k \in DOMAIN request_resources(run.var) :
              /\ Pooled(run.occCons, group_from_node(run.id), k) =
                    Pooled(run.occSel, group_from_node(run.id), k)
                        - request_resources(run.var)[k]
              /\ SumClamped(run.steps, k) = request_resources(run.var)[k]
        /\ StepsTakeLowest(run.occSel, group_from_node(run.id), run.steps)
        /\ \A n \in NodeIds :
              IsStock(run.occSel[n]) =>
                  run.occCons[n] = ReplaySteps(run.occSel, run.steps)[n]

\* a request was taken from two piles: the smaller emptied, then the next
C7_TookFromTwoPiles ==
    \E run \in AllRuns :
        /\ Len(run.steps) = 2
        /\ run.steps[1].clamped = run.steps[1].before
        /\ run.occCons[run.steps[1].node] = NoOcc
        /\ run.steps[2].clamped < run.steps[2].before

\* the room the non-full piles of kind k in the nodes ns have left
RECURSIVE HeadroomOf(_, _, _)
HeadroomOf(occ, ns, k) ==
    IF ns = << >> THEN 0
    ELSE (IF IsStock(occ[Head(ns)]) /\ occ[Head(ns)].var = k
             /\ ULt(occ[Head(ns)].n, MAX_STOCKPILE)
          THEN MAX_STOCKPILE - occ[Head(ns)].n ELSE 0)
         + HeadroomOf(occ, Tail(ns), k)

Headroom(occ, g, k) == HeadroomOf(occ, groups[g], k)

HasEmpty(occ, g) == \E n \in SeqToSet(groups[g]) : occ[n] = NoOcc

\* the group can take n more units of kind k
HasRoom(occ, g, k, n) == HasEmpty(occ, g) \/ Headroom(occ, g, k) >= n

\* one pile, or with no pile to top up one empty node, takes n units whole
SingleAbsorbs(occ, g, k, n) ==
    LET below == {a \in PileAmounts(occ, g, k) : ULt(a, MAX_STOCKPILE)}
    IN IF below = {} THEN HasEmpty(occ, g)
       ELSE \E a \in below :
               (\A b \in below : b <= a) /\ MAX_STOCKPILE - a >= n

\* C8: a construction with an empty request and cooldown at most 1 at the
\* start of a turn runs in it: the pooled amount of each produced kind rises
\* by the amount produced when the group has room, the cooldown is reset to
\* the catalog value, and one ProduceResource entry is logged per allocation
\* record, exactly one when one pile or empty node takes the whole amount
C8_EmptyRequestRuns ==
    \A r \in LastRecs : \A n \in NodeIds :
        (/\ IsConstr(r.occStart[n])
         /\ request_resources(r.occStart[n].var) = BunchDefault
         /\ r.occStart[n].n <= 1) =>
            \E run \in RunsOf(r) :
                /\ run.id = n
                /\ run.var = r.occStart[n].var
                /\ run.occProd[n] = Construction(run.var, get_cooldown(run.var))
                /\ run.steps = << >>
                /\ \A k \in DOMAIN produce_resources(run.var) :
                      /\ HasRoom(run.occCons, group_from_node(n), k,
                                 produce_resources(run.var)[k]) =>
                            Pooled(run.occProd, group_from_node(n), k) =
                                Pooled(run.occCons, group_from_node(n), k)
                                    + produce_resources(run.var)[k]
                      /\ SingleAbsorbs(run.occCons, group_from_node(n), k,
                                       produce_resources(run.var)[k]) =>
                            Len(run.allocs) = 1
                /\ run.logProd - run.logCons = Len(run.allocs)
                /\ \A j \in DOMAIN run.allocs :
                      \E k \in DOMAIN produce_resources(run.var) :
                          r.log[run.logCons + j] =
                              ProduceResource(n, run.allocs[j].node, k,
                                              run.allocs[j].abs,
                                              run.allocs[j].diff)

\* a solar field with cooldown 1 at the start of the turn ran, and one pile
\* took the three units
C8_SolarFieldRan ==
    \E r \in LastRecs : \E run \in RunsOf(r) :
        /\ r.occStart[run.id] = Construction("SolarField", 1)
        /\ Len(run.allocs) = 1
        /\ IsStock(run.occCons[run.allocs[1].node])
        /\ Pooled(run.occProd, group_from_node(run.id), "Power") =
              Pooled(run.occCons, group_from_node(run.id), "Power") + 3

\* the first node of group g without occupant (the group has one)
FirstEmpty(occ, g) ==
    groups[g][CHOOSE i \in DOMAIN groups[g] :
                 /\ occ[groups[g][i]] = NoOcc
                 /\ \A j \in 1..(i - 1) : occ[groups[g][j]] # NoOcc]

RECURSIVE SumDiff(_)
SumDiff(actions) ==
    IF actions = << >> THEN 0 ELSE Head(actions).diff + SumDiff(Tail(actions))

C10_TopUpNeverAbove100 ==
    \A j \in DOMAIN added.actions :
        IsStock(added.before[added.actions[j].node]) =>
            /\ ULe(added.actions[j].abs, MAX_STOCKPILE)
            /\ ULt(added.actions[j].abs - added.actions[j].diff, MAX_STOCKPILE)
            /\ added.actions[j].diff > 0
            /\ ULe(added.after[added.actions[j].node].n, MAX_STOCKPILE)

\* a pile was topped up to exactly 100 with more left to place, next to a pile
\* of the kind already at 100
C10_FilledToTheBrim ==
    \E j \in DOMAIN added.actions :
        /\ IsStock(added.before[added.actions[j].node])
        /\ added.actions[j].abs = MAX_STOCKPILE
        /\ added.actions[j].diff < added.amt
        /\ \E n \in SeqToSet(groups[1]) :
              added.before[n] = Stockpile(added.v, MAX_STOCKPILE)

\* what a call stores: the whole amount with room, the headroom without; the
\* records add up to the increase and no other node changes
AddStoresOrDiscards ==
    /\ Pooled(added.after, 1, added.v) - Pooled(added.before, 1, added.v) =
          IF HasRoom(added.before, 1, added.v, added.amt) THEN added.amt
          ELSE Headroom(added.before, 1, added.v)
    /\ SumDiff(added.actions) =
          Pooled(added.after, 1, added.v) - Pooled(added.before, 1, added.v)
    /\ \A n \in NodeIds :
          \/ added.after[n] = added.before[n]
          \/ /\ \E j \in DOMAIN added.actions : added.actions[j].node = n
             /\ n \in SeqToSet(groups[1])
             /\ added.before[n] = NoOcc
                  \/ (IsStock(added.before[n]) /\ added.before[n].var = added.v)
             /\ IsStock(added.after[n]) /\ added.after[n].var = added.v

TravelEntries(r) == SubSeq(r.log, r.logEat + 1, r.logEnd)
ShipMoves(r) == SelectSeq(TravelEntries(r), LAMBDA e : e.t = "ShipMove")

\* a destination is planned, it is not the group the ship is at, and the home
\* group has fuel when the travel step begins
MoveDue(r) ==
    /\ r.shipStart.planned_move # NoGroup
    /\ r.shipStart.planned_move # r.shipStart.orbiting_group
    /\ Pooled(r.occEat, 0, "FusionFuel") # 0

\* C12: a turn moves the ship exactly when a destination is planned, differs
\* from the ship's current group and the home group's pooled Fusion Fuel is at
\* least 1; a move takes exactly 1 fuel from the home group and logs exactly
\* one ShipMove from the current group to the destination; otherwise no fuel
\* is taken, no ShipMove is logged and the edges stay as they were
C12_MoveIffPlannedAndFuelled ==
    \A r \in LastRecs : ~r.crashed =>
        /\ r.moved = MoveDue(r)
        /\ r.moved =>
              /\ Pooled(r.occEnd, 0, "FusionFuel") =
                    Pooled(r.occEat, 0, "FusionFuel") - 1
              /\ \A k \in ResourceVariant \ {"FusionFuel"}, g \in GroupIds :
                    Pooled(r.occEnd, g, k) = Pooled(r.occEat, g, k)
              /\ ShipMoves(r) = <<ShipMove(r.shipStart.orbiting_group,
                                           r.shipStart.planned_move)>>
        /\ ~r.moved =>
              /\ r.occEnd = r.occEat
              /\ TravelEntries(r) = << >>
              /\ r.edgesEnd = r.edgesStart

\* a turn moved the ship on the home group's last unit of fuel
C12_MovedOnLastFuel ==
    \E r \in LastRecs :
        /\ ~r.crashed /\ r.moved
        /\ Pooled(r.occEat, 0, "FusionFuel") = 1
        /\ Pooled(r.occEnd, 0, "FusionFuel") = 0
        /\ r.edgesEnd # r.edgesStart

\* the edges that touch group g, and the others, in the order of the list
Touching(es, g) == SelectSeq(es, LAMBDA e : e[1] = g \/ e[2] = g)
NotTouching(es, g) == SelectSeq(es, LAMBDA e : e[1] # g /\ e[2] # g)

\* C13: after a move the only edge that touches the home group is
\* (home, destination), and the edges between two other groups are as before
C13_HomeEdgeRewritten ==
    \A r \in LastRecs : ~r.crashed /\ r.moved =>
        /\ Touching(r.edgesEnd, r.shipStart.own_group) =
              <<<<r.shipStart.own_group, r.shipStart.planned_move>>>>
        /\ NotTouching(r.edgesEnd, r.shipStart.own_group) =
              NotTouching(r.edgesStart, r.shipStart.own_group)

\* a move to group 2 replaced the edge from the home group to group 1
C13_HomeEdgeMoved ==
    \E r \in LastRecs :
        /\ ~r.crashed /\ r.moved
        /\ <<0, 1>> \in SeqToSet(r.edgesStart)
        /\ <<0, 1>> \notin SeqToSet(r.edgesEnd)
        /\ <<0, 2>> \in SeqToSet(r.edgesEnd)
        /\ Len(r.edgesEnd) = Len(r.edgesStart)

\* C14: when a turn moves the ship, the ship's current group is the
\* destination as soon as the turn is resolved, before any playback
C14_ShipAtDestinationAfterTurn ==
    \A r \in LastRecs : ~r.crashed /\ r.moved =>
        r.shipEnd.orbiting_group = r.shipStart.planned_move

(* ------------------------------ eat and win ---------------------------- *)
\* the log entries of the eat step of a turn
EatEntries(r) == SubSeq(r.log, r.logLoop + 1, r.logEat)

\* the home nodes whose occupant the eat step changed
EatenFrom(r) == {n \in NodeIds : r.occEat[n] # r.occLoop[n]}

\* C16: with pooled Food of at least 1 in the home group at the eat step, a
\* resolved turn takes exactly 1 Food from the lowest Food pile, logs exactly
\* one ConsumeResource(Food, -1) and does not make the run Lost; with no Food
\* the run becomes Lost and no Food is taken. Amounts are u32: a turn that
\* panics is not resolved
C16_EatOneOrLose ==
    \A r \in LastRecs : ~r.crashed =>
        IF Pooled(r.occLoop, 0, "Food") # 0
        THEN LET lowest_id == get_lowest_stockpile(r.occLoop, 0, "Food")
             IN /\ Pooled(r.occEat, 0, "Food") = Pooled(r.occLoop, 0, "Food") - 1
                /\ EatenFrom(r) = {lowest_id}
                /\ \A n \in SeqToSet(groups[0]) :
                      IsStock(r.occLoop[n]) /\ r.occLoop[n].var = "Food"
                          => ULe(r.occLoop[lowest_id].n, r.occLoop[n].n)
                /\ r.occEat[lowest_id] =
                      Stockpile("Food", r.occLoop[lowest_id].n - 1)
                /\ EatEntries(r) =
                      <<ConsumeResource(lowest_id, lowest_id, "Food",
                                        r.occLoop[lowest_id].n - 1, 0 - 1)>>
                /\ r.nextEnd = "GameOver" => r.nextStart = "GameOver"
        ELSE /\ r.nextEnd = "GameOver"
             /\ r.occEat = r.occLoop
             /\ EatEntries(r) = << >>

\* a turn ate from the lower of two Food piles, and another turn found no Food
C16_AteFromLowerPile ==
    \E r \in LastRecs :
        /\ ~r.crashed
        /\ r.occLoop[0] = Stockpile("Food", 100)
        /\ r.occLoop[1] = Stockpile("Food", 2)
        /\ r.occEat[1] = Stockpile("Food", 1)
        /\ r.nextEnd # "GameOver"

\* C17: a turn makes the run Won exactly when the home group's pooled Food
\* and Fusion Fuel are both above 100 after the turn's production, eating and
\* travel
C17_WonIffAbove100AfterTurn ==
    \A r \in LastRecs : ~r.crashed /\ r.nextStart = "None" =>
        (r.nextEnd = "GameWon") =
            (Pooled(r.occEnd, 0, "Food") > 100
                /\ Pooled(r.occEnd, 0, "FusionFuel") > 100)

\* C19: after every resolved turn no destination is planned, whether or not
\* the ship moved
C19_PlanClearedAfterTurn ==
    \A r \in LastRecs : ~r.crashed => r.shipEnd.planned_move = NoGroup

\* a turn that had a destination and did not move left no destination
C19_UnusedPlanCleared ==
    \E r \in LastRecs :
        /\ ~r.crashed /\ ~r.moved
        /\ r.shipStart.planned_move # NoGroup
        /\ r.shipEnd.planned_move = NoGroup
        /\ ship.planned_move = NoGroup

\* C15: every move a turn executes goes to a neighbour, by the edges of that
\* moment, of the group the ship is at when the move executes, also when the
\* destination was chosen while the log of the turn before was played back
C15_MoveToNeighbour ==
    \A r \in LastRecs : ~r.crashed /\ r.moved =>
        r.shipStart.planned_move \in
            SeqToSet(star(r.edgesStart, r.shipStart.orbiting_group))

(* ------------------------------ terminal states ------------------------ *)
Terminal == {"GameOver", "GameWon"}

\* C18: once a turn has made the run Lost or Won no later EndTurn is resolved,
\* and the run stays in the terminal state
C18_NoTurnAfterTerminal ==
    /\ \A i, j \in DOMAIN last.recs :
          i < j => last.recs[i].nextEnd \notin Terminal
    /\ app_state \in Terminal => next_state = "None"

\* C20: a step of the playback changes neither the occupants, nor the edges,
\* nor the ship's current, home and planned group, nor the turn counter
C20_PlaybackChangesNoSimulationState ==
    [][play_autoactions =>
          /\ occupation' = occupation
          /\ edges' = edges
          /\ ship' = ship
          /\ turns' = turns]_vars

(* ------------------------------ the log -------------------------------- *)
\* entries were appended behind the ones that wait; the current one stays
LogAppended ==
    /\ autoactions'.current = autoactions.current
    /\ Len(autoactions'.actions) > Len(autoactions.actions)
    /\ SubSeq(autoactions'.actions, 1, Len(autoactions.actions)) =
          autoactions.actions

\* the oldest waiting entry became the current one, or the last one finished
LogTaken ==
    IF autoactions.actions = << >>
    THEN autoactions.current # NoAction
            /\ autoactions' = [actions |-> << >>, current |-> NoAction]
    ELSE /\ autoactions'.current = Head(autoactions.actions)
         /\ autoactions'.actions = Tail(autoactions.actions)

\* C21: the log only changes by entries appended at its end and by the
\* playback taking its oldest entry, one at a time: entries are played in the
\* order they were appended, none skipped, reordered or played twice
C21_PlaybackInAppendOrder ==
    [][autoactions' = autoactions \/ LogAppended \/ LogTaken]_vars

\* the playback is at the second entry of a turn and the third one waits
C21_SecondEntryPlaying ==
    /\ autoactions.current.t = "ConsumeResource"
    /\ autoactions.current.var = "FusionFuel"
    /\ autoactions.actions = <<ShipMove(1, 2)>>
    /\ last.recs # << >>
    /\ Len(last.recs[1].log) = 3

(* ------------------------------ placement ------------------------------ *)
\* the nodes of group g, but skip, whose occupant differs between two maps
Touched(before, after, g, skip) ==
    {n \in SeqToSet(groups[g]) \ {skip} : after[n] # before[n]}

\* the piles of kind k of group g were taken from lowest first: a touched node
\* held a pile no larger than any untouched one, at most one touched pile is
\* left, smaller and not empty, and the piles emptied were no larger than it
TakenLowestFirst(before, after, g, k, skip) ==
    LET T == Touched(before, after, g, skip)
    IN /\ \A n \in T :
             /\ IsStock(before[n]) /\ before[n].var = k
             /\ \/ after[n] = NoOcc
                \/ /\ IsStock(after[n]) /\ after[n].var = k
                   /\ after[n].n # 0 /\ ULt(after[n].n, before[n].n)
       /\ Cardinality({n \in T : after[n] # NoOcc}) <= 1
       /\ \A n \in T, m \in SeqToSet(groups[g]) \ T :
             IsStock(before[m]) /\ before[m].var = k
                 => ULe(before[n].n, before[m].n)
       /\ \A n, m \in T :
             after[n] = NoOcc /\ after[m] # NoOcc
                 => ULe(before[n].n, before[m].n)

\* the entries a step appended to the log
NewEntries ==
    SubSeq(autoactions'.actions, Len(autoactions.actions) + 1,
           Len(autoactions'.actions))

\* what a press of Construct(node_id, var) does
PlacedOrRefused(node_id, var) ==
    LET g == group_from_node(node_id)
        cost == get_material_cost(var)
        cash == Pooled(occupation, g, "Material")
    IN IF occupation[node_id] = NoOcc /\ ULe(cost, cash)
       THEN /\ occupation'[node_id] = Construction(var, 0)
            /\ Pooled(occupation', g, "Material") = cash - cost
            /\ TakenLowestFirst(occupation, occupation', g, "Material", node_id)
            /\ \A n \in NodeIds \ SeqToSet(groups[g]) :
                  occupation'[n] = occupation[n]
            /\ LogAppended
            /\ \A i \in DOMAIN NewEntries :
                  /\ NewEntries[i].t = "ConsumeResource"
                  /\ NewEntries[i].var = "Material"
                  /\ NewEntries[i].to = node_id
            /\ ~crashed'
       ELSE occupation' = occupation /\ autoactions' = autoactions

\* C22: a press of Construct(node, K) places the construction exactly when
\* the node is empty and the group's pooled Material covers the cost of K;
\* then the node holds K with cooldown 0 and the pooled Material falls by the
\* cost, lowest pile first, emptied piles removed; otherwise the map and the
\* log stay as they are
C22_PlacedIffEmptyAndPaid ==
    [][\A node_id \in UiNodes \cup BuildNodes, var \in ConstructionVariant :
          build(node_id, var) => PlacedOrRefused(node_id, var)]_vars

\* a solar field (cost 5) was paid from two piles: the pile of 1 is gone, the
\* pile of 20 is left with 16
C22_PaidFromTwoPiles ==
    /\ ops = 1
    /\ occupation[5] = Construction("SolarField", 0)
    /\ occupation[6] = NoOcc
    /\ occupation[7] = Stockpile("Material", 16)
    /\ Len(autoactions.actions) = 2

(* ------------------------------ transfers ------------------------------ *)
\* what a transfer click from id to node may do
TransferEffect(id, node) ==
    LET effect == occupation' # occupation \/ autoactions' # autoactions
    IN effect =>
          /\ node # id
          /\ occupation[node] = NoOcc
               \/ (IsStock(occupation[node])
                     /\ occupation[node].var = occupation[id].var)
          /\ IsStock(occupation'[node])
          /\ ULe(occupation'[node].n, MAX_STOCKPILE)

\* C23: a manual transfer, whole or split, never leaves more than 100 units
\* in the destination pile, and has an effect only on a different node that
\* is empty or holds a pile of the kind of the source
C23_TransferCappedAndGuarded ==
    [][\A id \in UiNodes, split \in BOOLEAN, node \in UiNodes :
          manual_transfer(id, split, node) => TransferEffect(id, node)]_vars

(* ------------------------------ bunches -------------------------------- *)
\* C24: a.contains(single(k, n)) is true exactly when the amount of k in a,
\* 0 for a kind a has no entry for, is at least n
C24_ContainsIffAmountAtLeast ==
    called.op = "contains" =>
        called.out = (GetOr0(called.a, called.var) >= called.amt)

\* C29: a + b = b + a and (a + b) + c = a + (b + c), and the amount of each
\* kind in a + b is the sum of its amounts in a and in b
C29_AddCommutesAndAssociates ==
    called.op = "add" =>
        /\ called.ab = called.ba
        /\ called.ab_c = called.a_bc
        /\ DOMAIN called.ab = (DOMAIN called.a) \cup (DOMAIN called.b)
        /\ \A k \in BunchKinds :
              GetOr0(called.ab, k) = GetOr0(called.a, k) + GetOr0(called.b, k)

\* three bunches that differ and overlap in part have been added
C29_AddedOverlapping ==
    /\ called.op = "add"
    /\ called.a = [k \in {"Food"} |-> 1]
    /\ called.b = [k \in {"Food", "Power"} |-> IF k = "Food" THEN 2 ELSE 1]
    /\ called.c = [k \in {"Power"} |-> 2]
    /\ called.ab_c = [k \in {"Food", "Power"} |-> 3]

(* ------------------------------ panics --------------------------------- *)
\* the pile get_lowest_stockpile returns in the home group holds nothing
LowestIsZero(occ, k) ==
    /\ get_lowest_stockpile(occ, 0, k) # NoNode
    /\ occ[get_lowest_stockpile(occ, 0, k)].n = 0

\* C25: no turn and no placement ends in one of the fatal lookups: the
\* consumption loops, the eat step and the travel step call
\* get_lowest_stockpile only where a pile of the kind exists and get a node
\* that holds a pile; a turn that panics does so on taking 1 from a pile of 0
C25_NoFatalLookup ==
    /\ crashed /\ added = NoCall => \E r \in LastRecs : r.crashed
    /\ \A r \in LastRecs :
          /\ ~r.loopCrashed
          /\ r.eatCrashed => LowestIsZero(r.occLoop, "Food")
          /\ r.crashed /\ ~r.eatCrashed => LowestIsZero(r.occEat, "FusionFuel")
          /\ \A i \in DOMAIN r.runs : \A j \in DOMAIN r.runs[i].steps :
                group_from_node(r.runs[i].steps[j].node) =
                    group_from_node(r.runs[i].id)

\* a construction was placed and paid, and a turn consumed for it and ate
C25_LookupsDone ==
    /\ ~crashed
    /\ IsConstr(occupation[4])
    /\ \E r \in LastRecs :
          /\ EatEntries(r) # << >>
          /\ \E i \in DOMAIN r.runs : r.runs[i].steps # << >>

(* ------------------------------ the counter ---------------------------- *)
\* C27: the turn counter starts at 1, a run of `turn` raises it by 1 for each
\* EndTurn it resolves, and no other step changes it: not a signal sent or
\* dropped, not the playback, not a build, a demolition, a transfer or a
\* planned destination
C27_CounterCountsResolvedTurns ==
    /\ turns = 1
    /\ [][IF turn
          THEN /\ turns' = turns + Len(last'.recs)
               /\ Len(last'.recs) = Len(events)
          ELSE turns' = turns]_vars

\* two turns have been resolved and the UI has been used
C27_TwoTurnsCounted ==
    /\ turns = 3
    /\ resolved = 2
    /\ ops = 1
    /\ ~crashed

\* the state one resolved turn started from, read back from its record
StartOf(r) ==
    [occ |-> r.occStart, edges |-> r.edgesStart, ship |-> r.shipStart,
     log |-> SubSeq(r.log, 1, r.logStart), cur |-> NoAction,
     turns |-> r.turnsStart, next |-> r.nextStart, crashed |-> FALSE]

\* the outcome o is the one the record r tells of: same map, ship, counter,
\* requested state and action log
SameOutcome(o, r) ==
    /\ o.occ = r.occEnd
    /\ o.edges = r.edgesEnd
    /\ o.ship = r.shipEnd
    /\ o.turns = r.turnsStart + 1
    /\ o.next = r.nextEnd
    /\ o.crashed = r.crashed
    /\ o.log = r.log

\* C26: a turn resolved from a given map, ship and turn counter ends in the
\* same state with the same action log whatever the order in which the
\* occupation map hands over the candidate constructions: every other order,
\* in the same build, gives the outcome the turn had.
C26_SameOutcomeInAnyOrder ==
    \A i \in DOMAIN last.recs :
        \A cs \in CandidateLists(DecrementCooldowns(last.recs[i].occStart)) :
            \E wrap \in BOOLEAN :
                SameOutcome(turn_body(StartOf(last.recs[i]), cs, wrap),
                            last.recs[i])

\* the entry j of the consumption of run, in the log of the turn r
ConsumeEntryOf(r, run, j) == r.log[run.logSel + j]

\* C28: every ConsumeResource entry logged for a construction that runs
\* carries the amount the source pile has after the subtraction and, as its
\* delta, the full amount of that kind the construction requests, whatever
\* part of it was taken from that pile.
C28_EntryCarriesRestAndFullRequest ==
    \A r \in LastRecs :
        \A run \in RunsOf(r) :
            /\ run.logCons - run.logSel = Len(run.steps)
            /\ \A j \in DOMAIN run.steps :
                  LET st == run.steps[j]
                  IN ConsumeEntryOf(r, run, j) =
                        ConsumeResource(st.node, run.id, st.var,
                                        st.before - st.clamped,
                                        request_resources(run.var)[st.var])

\* a request of 2 was taken from two piles, 1 from each: both entries carry 2
C28_TwoEntriesCarryFullRequest ==
    \E r \in LastRecs :
        \E run \in RunsOf(r) :
            /\ Len(run.steps) = 2
            /\ run.steps[1].clamped # request_resources(run.var)[run.steps[1].var]
            /\ ConsumeEntryOf(r, run, 1).diff = ConsumeEntryOf(r, run, 2).diff
            /\ ConsumeEntryOf(r, run, 1).abs = 0

(* ------------------------------ underflow ------------------------------ *)
\* the eat step of the turn r took from a pile: the crew had Food
Ate(r) == ~r.loopCrashed /\ r.food # 0

\* the travel step of the turn r took from a pile: a move was due
Burned(r) == ~r.loopCrashed /\ ~r.eatCrashed /\ can_travel(r.shipStart, r.fusion)

\* C30: the eat step and the travel step never take 1 from a pile that holds
\* 0, also when the home group has several piles of the kind: the pile they
\* take from holds at least 1.
C30_NeverTakeFromEmptyPile ==
    \A r \in LastRecs :
        /\ Ate(r) => ~LowestIsZero(r.occLoop, "Food")
        /\ Burned(r) => ~LowestIsZero(r.occEat, "FusionFuel")

(* ------------------------------ cooldowns ------------------------------ *)
\* the construction on node n ran in the turn r
RanIn(r, n) == \E run \in RunsOf(r) : run.id = n

\* the construction on node n was collected as a candidate of the turn r
CandidateIn(r, n) == \E i \in DOMAIN r.cands : r.cands[i].id = n

\* C31: a construction that runs is left with its catalog cooldown c; in each
\* of the next c - 1 turns it is no candidate, does not run and has its
\* cooldown lowered by 1; in the turn that finds it at cooldown 1 or, newly
\* built, at 0, it is a candidate, and it runs unless its group lacks its
\* request.  Hence it runs next exactly c turns after it ran.
C31_RunsEveryCooldownTurns ==
    /\ \A r \in LastRecs : \A n \in NodeIds :
          IsConstr(r.occStart[n]) =>
              /\ CandidateIn(r, n) <=> r.occStart[n].n <= 1
              /\ RanIn(r, n) => /\ CandidateIn(r, n)
                                /\ r.occEnd[n].n = get_cooldown(r.occStart[n].var)
              /\ ~RanIn(r, n) =>
                    /\ r.occEnd[n].n =
                          IF r.occStart[n].n = 0 THEN 0 ELSE r.occStart[n].n - 1
                    /\ CandidateIn(r, n) =>
                          ~Satisfiable(r.occLoop,
                                       [id |-> n, var |-> r.occStart[n].var])
    /\ \A i \in DOMAIN last.recs : \A n \in NodeIds :
          (i > 1 /\ RanIn(last.recs[i - 1], n)) =>
              /\ last.recs[i].occStart[n] = last.recs[i - 1].occEnd[n]
              /\ get_cooldown(last.recs[i].occStart[n].var) > 1 =>
                    ~RanIn(last.recs[i], n)
              /\ (get_cooldown(last.recs[i].occStart[n].var) = 1
                    /\ ~RanIn(last.recs[i], n)) =>
                    ~Satisfiable(last.recs[i].occLoop,
                                 [id |-> n, var |-> last.recs[i].occStart[n].var])

\* two turns in a row: the solar field (cooldown 1) ran in both, the quarry
\* (cooldown 3) ran in the first and waited in the second
C31_RanThenWaited ==
    /\ Len(last.recs) = 2
    /\ RanIn(last.recs[1], 0) /\ RanIn(last.recs[2], 0)
    /\ last.recs[1].occStart[5] = Construction("Quarry", 1)
    /\ RanIn(last.recs[1], 5) /\ ~RanIn(last.recs[2], 5)
    /\ last.recs[2].occEnd[5] = Construction("Quarry", 2)

(* ------------------------------ loop bounds ---------------------------- *)
\* the passes of the add_resource_in_group call made for the kind k the
\* construction of run produces
PassesOf(run, k) ==
    add_resource_in_group(run.occCons, group_from_node(run.id), k,
                          produce_resources(run.var)[k]).passes

\* the passes of the consumption loop of run for the kind k
StepsOf(run, k) == Cardinality({j \in DOMAIN run.steps : run.steps[j].var = k})

\* C32: in one resolved turn no construction runs twice; the resolution loop
\* runs at most one construction per candidate and stops below its cap; a
\* consumption loop takes from at most as many piles as the group has of the
\* kind, gets the whole request and stops below its cap; a call of
\* add_resource_in_group makes at most one pass per node of the group and one
\* more, below its cap.
C32_LoopsEndBeforeTheirCaps ==
    /\ \A r \in LastRecs :
          /\ \A i, j \in DOMAIN r.runs : r.runs[i].id = r.runs[j].id => i = j
          /\ Len(r.runs) + Len(r.left) = Len(r.cands)
          /\ Len(r.runs) + 1 <= Len(r.cands) + 1
          /\ Len(r.runs) + 1 <= MAX_TURN_ITERS
          /\ \A run \in RunsOf(r) :
                /\ \A k \in DOMAIN request_resources(run.var) :
                      /\ StepsOf(run, k) <=
                            Cardinality(PilePositions(run.occSel,
                                                      group_from_node(run.id), k))
                      /\ StepsOf(run, k) + 1 <= MAX_TURN_ITERS
                      /\ SumClamped(run.steps, k) = request_resources(run.var)[k]
                /\ \A k \in DOMAIN produce_resources(run.var) :
                      /\ PassesOf(run, k) <=
                            Len(groups[group_from_node(run.id)]) + 1
                      /\ PassesOf(run, k) + 1 <= ADD_PASSES
    /\ added # NoCall /\ ~added.panic =>
          /\ added.passes <= Len(groups[1]) + 1
          /\ added.passes + 1 <= ADD_PASSES

\* a turn ran both its candidates, and one of them produced in two passes:
\* a pile topped up to 100, then no node left for the rest
C32_TwoRunsTwoPasses ==
    \E r \in LastRecs :
        /\ Len(r.cands) = 2 /\ Len(r.runs) = 2
        /\ \E run \in RunsOf(r) : \E k \in DOMAIN produce_resources(run.var) :
              /\ PassesOf(run, k) = 2
              /\ Len(run.allocs) = 1

(* ------------------------------ selections ----------------------------- *)
\* the position of the node n in the node list of the group g
PosOf(g, n) == CHOOSE i \in DOMAIN groups[g] : groups[g][i] = n

\* the nodes of group g that hold a pile of kind v in occ
PilesOf(occ, g, v) ==
    {n \in SeqToSet(groups[g]) : IsStock(occ[n]) /\ occ[n].var = v}

\* n holds the least amount among the nodes ns, and less than those before it
FirstLowest(occ, g, ns, n) ==
    /\ n \in ns
    /\ \A m \in ns :
          /\ ULe(occ[n].n, occ[m].n)
          /\ PosOf(g, m) < PosOf(g, n) => ULt(occ[n].n, occ[m].n)

\* n holds the greatest amount among the nodes ns, and more than those after it
LastHighest(occ, g, ns, n) ==
    /\ n \in ns
    /\ \A m \in ns :
          /\ ULe(occ[m].n, occ[n].n)
          /\ PosOf(g, m) > PosOf(g, n) => ULt(occ[m].n, occ[n].n)

\* C33: get_lowest_stockpile returns a node of the group holding a pile of
\* the kind with the least amount, the earliest in the node list among equal
\* ones; the first pass of add_resource_in_group tops up a pile of the kind
\* below 100 with the greatest amount, the latest in the node list among
\* equal ones, whenever there is such a pile.
C33_LowestFirstHighestLast ==
    /\ called.op = "get_lowest_stockpile" =>
          IF PilesOf(called.occ, 1, called.v) = {}
          THEN called.node = NoNode
          ELSE FirstLowest(called.occ, 1, PilesOf(called.occ, 1, called.v),
                           called.node)
    /\ (added # NoCall /\ ~added.panic /\ added.amt # 0) =>
          LET nonfull == {n \in PilesOf(added.before, 1, added.v) :
                              ULt(added.before[n].n, MAX_STOCKPILE)}
          IN nonfull # {} =>
                /\ added.actions # << >>
                /\ LastHighest(added.before, 1, nonfull, added.actions[1].node)

\* the lowest pile was asked for with two piles of the same least amount, and
\* the earlier node came back
C33_EarlierOfEqualLowest ==
    /\ called.op = "get_lowest_stockpile"
    /\ called.node = 5
    /\ called.occ[7] = called.occ[5]
    /\ IsStock(called.occ[6]) /\ called.occ[6].var = called.v
    /\ ULt(called.occ[5].n, called.occ[6].n)

(* ------------------------------ the home edge -------------------------- *)
\* C34: whenever the action log is drained, the edge set holds exactly one
\* edge at the ship's home group, and it leads to the group the ship orbits.
C34_HomeEdgeLeadsToShipWhenDrained ==
    done => star(edges, ship.own_group) = <<ship.orbiting_group>>

\* a move to group 2 was planned, resolved and played back to the end
C34_MovedAndDrained ==
    /\ done
    /\ resolved >= 1
    /\ ship.orbiting_group = 2
    /\ star(edges, ship.own_group) = <<2>>

(* ------------------------------ frame of a run ------------------------- *)
\* the nodes of the group of the construction of run
GroupOf(run) == SeqToSet(groups[group_from_node(run.id)])

\* C35: a construction that runs changes piles of its own group only: the
\* entries logged for it take from and give to nodes of its group, the nodes
\* of the other groups hold after the run what they held before, and the
\* production writes only to nodes that were empty or held a pile of the kind
\* produced, leaving constructions and piles of other kinds as they were.
C35_RunStaysInItsGroup ==
    \A r \in LastRecs : \A run \in RunsOf(r) :
        /\ \A j \in (run.logSel + 1)..run.logProd :
              /\ EntryOf(r.log[j], run.id)
              /\ r.log[j].t = "ConsumeResource" => r.log[j].from \in GroupOf(run)
              /\ r.log[j].t = "ProduceResource" => r.log[j].to \in GroupOf(run)
        /\ \A n \in NodeIds \ GroupOf(run) : run.occProd[n] = run.occSel[n]
        /\ \A n \in GroupOf(run) :
              /\ (IsConstr(run.occSel[n]) /\ n # run.id) =>
                    run.occProd[n] = run.occSel[n]
              /\ IsConstr(run.occProd[run.id])
              /\ run.occProd[n] # run.occCons[n] =>
                    /\ IsStock(run.occProd[n])
                    /\ run.occProd[n].var \in DOMAIN produce_resources(run.var)
                    /\ \/ run.occCons[n] = NoOcc
                       \/ /\ IsStock(run.occCons[n])
                          /\ run.occCons[n].var = run.occProd[n].var
        /\ \A i \in DOMAIN run.allocs : run.allocs[i].node \in GroupOf(run)

\* a construction of group 1 took its request from a pile of its group and
\* put its product on a node of its group, next to the piles of the home group
C35_ConsumedAndProducedInGroup ==
    \E r \in LastRecs : \E run \in RunsOf(r) :
        /\ group_from_node(run.id) = 1
        /\ run.steps # << >> /\ run.allocs # << >>
        /\ \E n \in SeqToSet(groups[0]) : IsStock(run.occSel[n])

(* ------------------------------ conservation --------------------------- *)
\* the amount the node n holds as a pile; 0 without a pile
AmountAt(occ, n) == IF IsStock(occ[n]) THEN occ[n].n ELSE 0

\* a transfer from id to node that has an effect moves k units: the whole
\* pile, or half of it rounded down for a split
TransferMovesExactly(id, split, node) ==
    LET k == IF split THEN UHalf(occupation[id].n) ELSE occupation[id].n
        effect == occupation' # occupation \/ autoactions' # autoactions
    IN effect =>
          /\ AmountAt(occupation', id) = USub(AmountAt(occupation, id), k)
          /\ AmountAt(occupation', node) = UAdd(AmountAt(occupation, node), k)

Playing == ~done /\ resolved > 0

\* a signal is pending in the drained state, with n turns resolved so far
Pending(n) ==
    /\ done /\ Running /\ next_state = "None"
    /\ events # << >>
    /\ resolved = n /\ n + Len(events) <= MaxResolved

\* C37: after a resolved turn, with playback running and nothing else
\* appending to the log, playback removes every entry and the log is drained
\* again, unless the turn ended the game or the program, which stops the
\* playback; and a signal pending in the drained state is resolved.
C37_PlaybackDrainsAndTurnResumes ==
    /\ Playing ~> (done \/ ~Running)
    /\ \A n \in 0..MaxResolved : Pending(n) ~> (resolved > n)

\* a second turn was resolved after the entries of the first, those of the
\* solar field among them, had been played back, and has been played back too
C37_SecondTurnPlayedBack ==
    /\ done /\ Running
    /\ resolved = 2
    /\ Len(last.recs) = 1
    /\ last.recs[1].logStart = 0
    /\ last.recs[1].logEnd >= 2
    /\ IsConstr(occupation[0])
====
